---- MODULE Spec2Model ----
(***************************************************************************)
(* Model of the payments engine: the transaction ledger, the account       *)
(* store, the transaction state machine (Transaction::apply), the account  *)
(* balance engine (Account::new / Account::apply) and the orchestrator     *)
(* PaymentsEngine::process_transaction.                                    *)
(*                                                                         *)
(* Amounts are rust_decimal values; they are modelled as integers counting *)
(* the smallest unit of the input's precision (the code never rounds).     *)
(***************************************************************************)
EXTENDS Integers, Sequences, FiniteSets, TLC

\* ------------------------------------------------------------------ bounds
MaxTx == 2
MaxClient == 2
MaxAmount == 1
MaxCommands == 4
\* rows of the input when the repositories can fail
MaxFaultyCommands == 2

TxIds == 1..MaxTx
Clients == 1..MaxClient
\* Decimal is signed and the reader accepts any decimal text, so an amount can
\* be negative: -1 stands for the negative amounts.
Amounts == {-1} \cup (1..MaxAmount)

\* --------------------------------------------------------- TransactionKind
Deposit(amount) == [tag |-> "Deposit", amount |-> amount]
Withdrawal(amount) == [tag |-> "Withdrawal", amount |-> amount]
Dispute == [tag |-> "Dispute"]
Resolve == [tag |-> "Resolve"]
ChargeBack == [tag |-> "ChargeBack"]

TransactionKind ==
  {Deposit(a) : a \in Amounts} \cup {Withdrawal(a) : a \in Amounts}
    \cup {Dispute, Resolve, ChargeBack}

TransactionCommand == [kind : TransactionKind, tx : TxIds, client : Clients]

\* ------------------------------------------------------- Option and Result
None == <<>>
Some(x) == <<x>>
Ok(v) == [ok |-> TRUE, val |-> v]
Err(e) == [ok |-> FALSE, err |-> e]

\* ------------------------------------------------------------------ errors
InvalidState(from, to) == [error |-> "InvalidState", from |-> from, to |-> to]
UnexpectedClient(expected, got) ==
  [error |-> "UnexpectedClient", expected |-> expected, got |-> got]
UnexpectedTx(expected, got) ==
  [error |-> "UnexpectedTx", expected |-> expected, got |-> got]
RootTransactionRequired ==
  [error |-> "transactions must start with a deposit or withdrawal"]
InsufficientFunds == [error |-> "InsufficientFunds"]
InvalidClient == [error |-> "InvalidClient"]
InvalidInitialTransaction == [error |-> "InvalidInitialTransaction"]

\* ------------------------------------------------------------------- state
\* transactions::MemoryRepo.data : tx id -> Transaction
VARIABLE transactions
\* accounts::MemoryRepo.data : client -> Account
VARIABLE accounts
\* the call of process_transaction the run loop has made and not yet logged:
\* <<>> when there is none, else
\* <<[cmd, result, fault, transactions, accounts]>> with the command
\* submitted, the Result returned, the repository call that failed during it
\* and the two repositories as they were when the call began
VARIABLE last
\* number of commands the run loop has submitted so far
VARIABLE processed
\* number of rows the run loop has taken from the reader so far
VARIABLE rows
\* where run is: "loop" in the for loop over the rows, "done" after the
\* report is written and Ok(()) returned, "aborted" after an early return
VARIABLE pc
\* the AccountStatement rows written to stdout
VARIABLE output

vars == <<transactions, accounts, last, processed, rows, pc, output>>

\* ---------------------------------------------- Transaction state machine
\* Mutant: an advanced command with an unknown id is turned into a
\* transaction of amount 0 instead of being refused.
Transaction_try_from_any_kind(t) ==
  IF t.kind.tag \in {"Deposit", "Withdrawal"}
    THEN Ok([tx |-> t.tx, amount |-> t.kind.amount, kind |-> t.kind,
             client |-> t.client])
    ELSE Ok([tx |-> t.tx, amount |-> 0, kind |-> t.kind, client |-> t.client])

Transaction_try_from(t) ==
  IF t.kind.tag \in {"Deposit", "Withdrawal"}
    THEN Ok([tx |-> t.tx, amount |-> t.kind.amount, kind |-> t.kind,
             client |-> t.client])
    ELSE Err(RootTransactionRequired)

\* Mutant: the match has one more arm, (Resolve, Dispute).
Transaction_apply_redispute(self, t) ==
  IF self.tx # t.tx THEN Err(UnexpectedTx(self.tx, t.tx))
  ELSE IF self.client # t.client
    THEN Err(UnexpectedClient(self.client, t.client))
  ELSE IF self.kind.tag \in {"Deposit", "Withdrawal"} /\ t.kind.tag = "Dispute"
    THEN Ok([tx |-> self.tx, client |-> self.client,
             amount |-> self.kind.amount, kind |-> t.kind])
  ELSE IF self.kind.tag = "Dispute" /\ t.kind.tag \in {"Resolve", "ChargeBack"}
    THEN Ok([tx |-> self.tx, client |-> self.client,
             amount |-> self.amount, kind |-> t.kind])
  ELSE IF self.kind.tag = "Resolve" /\ t.kind.tag = "Dispute"
    THEN Ok([tx |-> self.tx, client |-> self.client,
             amount |-> self.amount, kind |-> t.kind])
  ELSE Err(InvalidState(self.kind, t.kind))

\* Mutant: the match has one more arm, (Resolve, ChargeBack).
Transaction_apply_unfreeze(self, t) ==
  IF self.tx # t.tx THEN Err(UnexpectedTx(self.tx, t.tx))
  ELSE IF self.client # t.client
    THEN Err(UnexpectedClient(self.client, t.client))
  ELSE IF self.kind.tag \in {"Deposit", "Withdrawal"} /\ t.kind.tag = "Dispute"
    THEN Ok([tx |-> self.tx, client |-> self.client,
             amount |-> self.kind.amount, kind |-> t.kind])
  ELSE IF self.kind.tag = "Dispute" /\ t.kind.tag \in {"Resolve", "ChargeBack"}
    THEN Ok([tx |-> self.tx, client |-> self.client,
             amount |-> self.amount, kind |-> t.kind])
  ELSE IF self.kind.tag = "Resolve" /\ t.kind.tag = "ChargeBack"
    THEN Ok([tx |-> self.tx, client |-> self.client,
             amount |-> self.amount, kind |-> t.kind])
  ELSE Err(InvalidState(self.kind, t.kind))

\* Mutant: a dispute does not recover the amount of the root transaction.
Transaction_apply_no_amount(self, t) ==
  IF self.tx # t.tx THEN Err(UnexpectedTx(self.tx, t.tx))
  ELSE IF self.client # t.client
    THEN Err(UnexpectedClient(self.client, t.client))
  ELSE IF self.kind.tag \in {"Deposit", "Withdrawal"} /\ t.kind.tag = "Dispute"
    THEN Ok([tx |-> self.tx, client |-> self.client,
             amount |-> 0, kind |-> t.kind])
  ELSE IF self.kind.tag = "Dispute" /\ t.kind.tag \in {"Resolve", "ChargeBack"}
    THEN Ok([tx |-> self.tx, client |-> self.client,
             amount |-> self.amount, kind |-> t.kind])
  ELSE Err(InvalidState(self.kind, t.kind))

\* Mutant: the owner of the stored transaction is not compared with the
\* client of the command.
Transaction_apply_any_client(self, t) ==
  IF self.tx # t.tx THEN Err(UnexpectedTx(self.tx, t.tx))
  ELSE IF self.kind.tag \in {"Deposit", "Withdrawal"} /\ t.kind.tag = "Dispute"
    THEN Ok([tx |-> self.tx, client |-> self.client,
             amount |-> self.kind.amount, kind |-> t.kind])
  ELSE IF self.kind.tag = "Dispute" /\ t.kind.tag \in {"Resolve", "ChargeBack"}
    THEN Ok([tx |-> self.tx, client |-> self.client,
             amount |-> self.amount, kind |-> t.kind])
  ELSE Err(InvalidState(self.kind, t.kind))

Transaction_apply(self, t) ==
  IF self.tx # t.tx THEN Err(UnexpectedTx(self.tx, t.tx))
  ELSE IF self.client # t.client
    THEN Err(UnexpectedClient(self.client, t.client))
  ELSE IF self.kind.tag \in {"Deposit", "Withdrawal"} /\ t.kind.tag = "Dispute"
    THEN Ok([tx |-> self.tx, client |-> self.client,
             amount |-> self.kind.amount, kind |-> t.kind])
  ELSE IF self.kind.tag = "Dispute" /\ t.kind.tag = "Resolve"
    THEN Ok([tx |-> self.tx, client |-> self.client,
             amount |-> self.amount, kind |-> t.kind])
  ELSE IF self.kind.tag = "Dispute" /\ t.kind.tag = "ChargeBack"
    THEN Ok([tx |-> self.tx, client |-> self.client,
             amount |-> self.amount, kind |-> t.kind])
  ELSE Err(InvalidState(self.kind, t.kind))

\* -------------------------------------------------- Account balance engine
\* Mutant: any first transaction opens the account, a non-deposit with an
\* empty balance.
Account_new_any_kind(transaction) ==
  Ok([client |-> transaction.client,
      available |-> IF transaction.kind.tag = "Deposit"
                      THEN transaction.kind.amount ELSE 0,
      held |-> 0,
      locked |-> FALSE])

Account_new(transaction) ==
  IF transaction.kind.tag = "Deposit"
    THEN Ok([client |-> transaction.client,
             available |-> transaction.kind.amount,
             held |-> 0,
             locked |-> FALSE])
    ELSE Err(InvalidInitialTransaction)

is_locked(self) == self.locked

\* The arms of the match of Account::apply, shared by the mutants below.
Account_apply_arms(self, transaction, floor) ==
  CASE transaction.kind.tag = "Deposit" ->
         Ok([self EXCEPT !.available = @ + transaction.amount])
    [] transaction.kind.tag = "Withdrawal" ->
         IF floor /\ self.available - transaction.amount < 0
           THEN Err(InsufficientFunds)
           ELSE Ok([self EXCEPT !.available = @ - transaction.amount])
    [] transaction.kind.tag = "Dispute" ->
         Ok([self EXCEPT !.available = @ - transaction.amount,
                         !.held = @ + transaction.amount])
    [] transaction.kind.tag = "Resolve" ->
         Ok([self EXCEPT !.held = @ - transaction.amount,
                         !.available = @ + transaction.amount])
    [] transaction.kind.tag = "ChargeBack" ->
         Ok([self EXCEPT !.held = @ - transaction.amount,
                         !.locked = TRUE])

\* Mutant: a locked account is not refused.
Account_apply_ignore_lock(self, transaction) ==
  IF self.client # transaction.client THEN Err(InvalidClient)
  ELSE Account_apply_arms(self, transaction, TRUE)

\* Mutant: a withdrawal is committed without the floor check.
Account_apply_no_floor(self, transaction) ==
  IF self.client # transaction.client THEN Err(InvalidClient)
  ELSE IF is_locked(self) THEN Err(InsufficientFunds)
  ELSE Account_apply_arms(self, transaction, FALSE)

\* Mutant: a resolve releases the funds without taking them out of held.
Account_apply_resolve_keeps_held(self, transaction) ==
  IF self.client # transaction.client THEN Err(InvalidClient)
  ELSE IF is_locked(self) THEN Err(InsufficientFunds)
  ELSE IF transaction.kind.tag = "Resolve"
    THEN Ok([self EXCEPT !.available = @ + transaction.amount])
  ELSE Account_apply_arms(self, transaction, TRUE)

\* Mutant: a chargeback takes the funds out of held without locking.
Account_apply_chargeback_no_lock(self, transaction) ==
  IF self.client # transaction.client THEN Err(InvalidClient)
  ELSE IF is_locked(self) THEN Err(InsufficientFunds)
  ELSE IF transaction.kind.tag = "ChargeBack"
    THEN Ok([self EXCEPT !.held = @ - transaction.amount])
  ELSE Account_apply_arms(self, transaction, TRUE)

\* Mutant: a dispute is refused when it would make available negative.
Account_apply_dispute_floor(self, transaction) ==
  IF self.client # transaction.client THEN Err(InvalidClient)
  ELSE IF is_locked(self) THEN Err(InsufficientFunds)
  ELSE IF transaction.kind.tag = "Dispute"
            /\ self.available - transaction.amount < 0
    THEN Err(InsufficientFunds)
  ELSE Account_apply_arms(self, transaction, TRUE)

Account_apply(self, transaction) ==
  IF self.client # transaction.client THEN Err(InvalidClient)
  ELSE IF is_locked(self) THEN Err(InsufficientFunds)
  ELSE CASE transaction.kind.tag = "Deposit" ->
              Ok([self EXCEPT !.available = @ + transaction.amount])
         [] transaction.kind.tag = "Withdrawal" ->
              IF self.available - transaction.amount < 0
                THEN Err(InsufficientFunds)
                ELSE Ok([self EXCEPT !.available = @ - transaction.amount])
         [] transaction.kind.tag = "Dispute" ->
              Ok([self EXCEPT !.available = @ - transaction.amount,
                              !.held = @ + transaction.amount])
         [] transaction.kind.tag = "Resolve" ->
              Ok([self EXCEPT !.held = @ - transaction.amount,
                              !.available = @ + transaction.amount])
         [] transaction.kind.tag = "ChargeBack" ->
              Ok([self EXCEPT !.held = @ - transaction.amount,
                              !.locked = TRUE])

\* ------------------------------------------------------------ repositories
TransactionsRepo_get(data, id) ==
  IF id \in DOMAIN data THEN Some(data[id]) ELSE None

TransactionsRepo_save(data, transaction) ==
  [id \in DOMAIN data \cup {transaction.tx} |->
     IF id = transaction.tx THEN transaction ELSE data[id]]

AccountsRepo_get(data, id) ==
  IF id \in DOMAIN data THEN Some(data[id]) ELSE None

AccountsRepo_save(data, account) ==
  [c \in DOMAIN data \cup {account.client} |->
     IF c = account.client THEN account ELSE data[c]]

\* ------------------------------------------------------------ orchestrator
\* The transaction the command turns into: the first match of
\* process_transaction.
advance(data, t) ==
  LET stored == TransactionsRepo_get(data, t.tx)
  IN IF stored # None THEN Transaction_apply(stored[1], t)
                      ELSE Transaction_try_from(t)

\* Mutant: the account is looked up under the transaction id instead of the
\* client id.
update_by_tx(data, transaction) ==
  LET acc == AccountsRepo_get(data, transaction.tx)
  IN IF acc # None THEN Account_apply(acc[1], transaction)
                   ELSE Account_new(transaction)

\* The updated account: the second match of process_transaction.
update(data, transaction) ==
  LET acc == AccountsRepo_get(data, transaction.client)
  IN IF acc # None THEN Account_apply(acc[1], transaction)
                   ELSE Account_new(transaction)

\* What is kept of a call of process_transaction until the run loop has
\* logged it.
call(t, r, fault) ==
  [cmd |-> t, result |-> r, fault |-> fault, transactions |-> transactions,
   accounts |-> accounts]

\* The repository calls of process_transaction, each of which returns a
\* Result and is followed by `?`: the call returns at the first one that
\* fails, so a run of it is described by its first failing repository call.
FaultPoints ==
  {"none", "transactions.get", "accounts.get", "accounts.save",
   "transactions.save"}

\* The error of a failing repository, opaque to the engine.
StorageError == [error |-> "repository failure"]

\* Mutant: the ledger is written before the account is updated.
process_ledger_first(trs, accs, t, fault) ==
  LET transaction == advance(trs, t)
  IN IF ~transaction.ok
       THEN [result |-> Err(transaction.err), fault |-> "none",
             transactions |-> trs, accounts |-> accs]
       ELSE LET updated == update(accs, transaction.val)
                saved == TransactionsRepo_save(trs, transaction.val)
            IN IF ~updated.ok
                 THEN [result |-> Err(updated.err), fault |-> "none",
                       transactions |-> saved, accounts |-> accs]
                 ELSE [result |-> Ok(<<>>), fault |-> "none",
                       transactions |-> saved,
                       accounts |-> AccountsRepo_save(accs, updated.val)]

\* Mutant: the ledger is saved before the account.
process_save_ledger_first(trs, accs, t, fault) ==
  LET unchanged(r, f) ==
        [result |-> r, fault |-> f, transactions |-> trs, accounts |-> accs]
      transaction == advance(trs, t)
  IN IF fault = "transactions.get" THEN unchanged(Err(StorageError), fault)
     ELSE IF ~transaction.ok THEN unchanged(Err(transaction.err), "none")
     ELSE IF fault = "accounts.get" THEN unchanged(Err(StorageError), fault)
     ELSE LET updated == update(accs, transaction.val)
          IN IF ~updated.ok THEN unchanged(Err(updated.err), "none")
             ELSE IF fault = "transactions.save"
               THEN unchanged(Err(StorageError), fault)
             ELSE IF fault = "accounts.save"
               THEN [result |-> Err(StorageError), fault |-> fault,
                     transactions |->
                       TransactionsRepo_save(trs, transaction.val),
                     accounts |-> accs]
             ELSE [result |-> Ok(<<>>), fault |-> "none",
                   transactions |->
                     TransactionsRepo_save(trs, transaction.val),
                   accounts |-> AccountsRepo_save(accs, updated.val)]

\* process_transaction as a function of the two repositories, the command and
\* the repository call that is set to fail: the Result it returns, the
\* repository call that did fail ("none" when the call returned before
\* reaching it) and the repositories it leaves.
process(trs, accs, t, fault) ==
  LET unchanged(r, f) ==
        [result |-> r, fault |-> f, transactions |-> trs, accounts |-> accs]
      transaction == advance(trs, t)
  IN IF fault = "transactions.get" THEN unchanged(Err(StorageError), fault)
     ELSE IF ~transaction.ok THEN unchanged(Err(transaction.err), "none")
     ELSE IF fault = "accounts.get" THEN unchanged(Err(StorageError), fault)
     ELSE LET updated == update(accs, transaction.val)
          IN IF ~updated.ok THEN unchanged(Err(updated.err), "none")
             ELSE IF fault = "accounts.save"
               THEN unchanged(Err(StorageError), fault)
             ELSE IF fault = "transactions.save"
               THEN [result |-> Err(StorageError), fault |-> fault,
                     transactions |-> trs,
                     accounts |-> AccountsRepo_save(accs, updated.val)]
             ELSE [result |-> Ok(<<>>), fault |-> "none",
                   transactions |->
                     TransactionsRepo_save(trs, transaction.val),
                   accounts |-> AccountsRepo_save(accs, updated.val)]

\* A call of process_transaction on repositories of which the call `fault`
\* is set to fail.
process_transaction_on(t, fault) ==
  LET o == process(transactions, accounts, t, fault)
  IN /\ transactions' = o.transactions
     /\ accounts' = o.accounts
     /\ last' = <<call(t, o.result, o.fault)>>

\* A call of process_transaction on the two MemoryRepo, whose get and save
\* always return Ok.
process_transaction(t) == process_transaction_on(t, "none")

\* ---------------------------------------------------------------- run loop
\* The row written for an account.
AccountStatement(acc) ==
  [client |-> acc.client, available |-> acc.available, held |-> acc.held,
   total |-> acc.available + acc.held, locked |-> is_locked(acc)]

\* get_all followed by one serialize per account (HashMap order, so a set).
report_rows(data) == {AccountStatement(data[c]) : c \in DOMAIN data}

Init ==
  /\ transactions = <<>>
  /\ accounts = <<>>
  /\ last = <<>>
  /\ processed = 0
  /\ rows = 0
  /\ pc = "loop"
  /\ output = {}

\* The run loop reads the next row of the input, a well-formed command, and
\* submits it to the engine; the input holds at most MaxCommands rows.
run_step(t) ==
  /\ pc = "loop"
  /\ last = <<>>
  /\ rows < MaxCommands
  /\ rows' = rows + 1
  /\ processed' = processed + 1
  /\ process_transaction(t)
  /\ UNCHANGED <<pc, output>>

\* The same on repositories that can fail; the input holds at most
\* MaxFaultyCommands rows.
run_step_faulty(t, fault) ==
  /\ pc = "loop"
  /\ last = <<>>
  /\ rows < MaxFaultyCommands
  /\ rows' = rows + 1
  /\ processed' = processed + 1
  /\ process_transaction_on(t, fault)
  /\ UNCHANGED <<pc, output>>

\* The run loop reads a row that does not deserialize into a command:
\* `result?` returns the error from run and main logs it.
bad_row ==
  /\ pc = "loop"
  /\ last = <<>>
  /\ rows < MaxCommands
  /\ rows' = rows + 1
  /\ pc' = "aborted"
  /\ UNCHANGED <<transactions, accounts, last, processed, output>>

\* Mutant: an Err of process_transaction is returned from run.
log_step_abort ==
  /\ pc = "loop"
  /\ last # <<>>
  /\ last' = <<>>
  /\ pc' = IF last[1].result.ok THEN "loop" ELSE "aborted"
  /\ UNCHANGED <<transactions, accounts, processed, rows, output>>

\* The run loop logs the outcome of the call (either arm of its match) and
\* goes on to the next row.
log_step ==
  /\ pc = "loop"
  /\ last # <<>>
  /\ last' = <<>>
  /\ UNCHANGED <<transactions, accounts, processed, rows, pc, output>>

\* The input is exhausted: every account is written to stdout and run
\* returns Ok(()).
report ==
  /\ pc = "loop"
  /\ last = <<>>
  /\ output' = report_rows(accounts)
  /\ pc' = "done"
  /\ UNCHANGED <<transactions, accounts, last, processed, rows>>

Next ==
  \/ \E t \in TransactionCommand : run_step(t)
  \/ log_step
  \/ bad_row
  \/ report

Spec == Init /\ [][Next]_vars

\* The engine on repositories that can fail (any implementation of the two
\* repository traits).
NextFaulty ==
  \/ \E t \in TransactionCommand : \E fault \in FaultPoints :
       run_step_faulty(t, fault)
  \/ log_step
  \/ bad_row
  \/ report

SpecFaulty == Init /\ [][NextFaulty]_vars

\* The commands whose amount, if they carry one, is not negative.
NonNegativeCommand ==
  [kind : {Deposit(a) : a \in 0..MaxAmount}
            \cup {Withdrawal(a) : a \in 0..MaxAmount}
            \cup {Dispute, Resolve, ChargeBack},
   tx : TxIds, client : Clients]

\* The run over an input in which no amount is negative.
NextNonNegative ==
  \/ \E t \in NonNegativeCommand : run_step(t)
  \/ log_step
  \/ bad_row
  \/ report

SpecNonNegative == Init /\ [][NextNonNegative]_vars

\* ================================================================= claims
\* The claims are stated on the states in which a call of process_transaction
\* has returned and is not yet logged: cmd and result are its command and its
\* Result, pre_transactions and pre_accounts the repositories when it began,
\* transactions and accounts the repositories it left.
Called == last # <<>>
cmd == last[1].cmd
result == last[1].result
pre_transactions == last[1].transactions
pre_accounts == last[1].accounts
Rejected == Called /\ ~result.ok
Accepted == Called /\ result.ok
Root == {"Deposit", "Withdrawal"}
Advanced == {"Dispute", "Resolve", "ChargeBack"}

\* The transition table of the specification (section 4.1).
LegalTransitions ==
  {<<"Deposit", "Dispute">>, <<"Withdrawal", "Dispute">>,
   <<"Dispute", "Resolve">>, <<"Dispute", "ChargeBack">>}

\* C1: for a stored transaction and a command with the same id and the same
\* client, Transaction::apply succeeds exactly for the four legal (stored
\* kind, command kind) pairs, returning a record whose kind is the command's
\* kind, and fails with InvalidState{from: stored kind, to: command kind} for
\* every other pair of the five kinds; the engine returns that failure as it
\* is and stores that record when it accepts the command.
C1_TransitionTable ==
  (Called /\ cmd.tx \in DOMAIN pre_transactions
     /\ pre_transactions[cmd.tx].client = cmd.client) =>
    LET self == pre_transactions[cmd.tx]
        r == Transaction_apply(self, cmd)
    IN IF <<self.kind.tag, cmd.kind.tag>> \in LegalTransitions
         THEN /\ r.ok
              /\ r.val.kind = cmd.kind
              /\ result.ok => transactions[cmd.tx] = r.val
         ELSE /\ r = Err(InvalidState(self.kind, cmd.kind))
              /\ result = r

\* A resolved transaction has just been disputed again by its owner and
\* refused with InvalidState{from: Resolve, to: Dispute}.
C1_Witness ==
  /\ Rejected
  /\ result = Err(InvalidState(Resolve, Dispute))
  /\ cmd.tx \in DOMAIN pre_transactions
  /\ pre_transactions[cmd.tx].kind = Resolve
  /\ pre_transactions[cmd.tx].client = cmd.client

\* C2: a ledger record of kind Resolve or ChargeBack is left identical by
\* every call, whatever the command.
C2_Terminal ==
  Called =>
    \A id \in DOMAIN pre_transactions :
      pre_transactions[id].kind.tag \in {"Resolve", "ChargeBack"} =>
        /\ id \in DOMAIN transactions
        /\ transactions[id] = pre_transactions[id]

\* The owner of a resolved transaction has just sent a ChargeBack for it
\* while the account is not locked.
C2_Witness ==
  /\ Called
  /\ cmd.kind = ChargeBack
  /\ cmd.tx \in DOMAIN pre_transactions
  /\ pre_transactions[cmd.tx].kind = Resolve
  /\ pre_transactions[cmd.tx].client = cmd.client
  /\ ~pre_accounts[cmd.client].locked

\* C3: a ledger record is created with the client and the amount of the root
\* command, no call changes the client or the amount of an existing record,
\* and an accepted Dispute, Resolve or ChargeBack moves exactly the amount of
\* the stored record on the account.
C3_ClientAmountImmutable ==
  Called =>
    /\ \A id \in DOMAIN pre_transactions :
         /\ id \in DOMAIN transactions
         /\ transactions[id].client = pre_transactions[id].client
         /\ transactions[id].amount = pre_transactions[id].amount
    /\ \A id \in DOMAIN transactions \ DOMAIN pre_transactions :
         /\ cmd.tx = id
         /\ cmd.kind.tag \in Root
         /\ transactions[id].client = cmd.client
         /\ transactions[id].amount = cmd.kind.amount
    /\ (result.ok /\ cmd.kind.tag \in Advanced) =>
         LET amount == pre_transactions[cmd.tx].amount
             old == pre_accounts[cmd.client]
             new == accounts[cmd.client]
         IN CASE cmd.kind.tag = "Dispute" ->
                   /\ new.available = old.available - amount
                   /\ new.held = old.held + amount
              [] cmd.kind.tag = "Resolve" ->
                   /\ new.available = old.available + amount
                   /\ new.held = old.held - amount
              [] cmd.kind.tag = "ChargeBack" ->
                   /\ new.available = old.available
                   /\ new.held = old.held - amount

\* A dispute of a transaction of non-zero amount has just been accepted.
C3_Witness ==
  /\ Accepted
  /\ cmd.kind = Dispute
  /\ transactions[cmd.tx].kind = Dispute
  /\ transactions[cmd.tx].amount # 0
  /\ accounts[cmd.client].held
       = pre_accounts[cmd.client].held + transactions[cmd.tx].amount

\* C4: a Dispute, Resolve or ChargeBack whose id has no ledger record is
\* rejected with the root-transaction-required error, and the ledger and the
\* account store are unchanged.
C4_RootTransactionRequired ==
  (Called /\ cmd.kind.tag \in Advanced
     /\ cmd.tx \notin DOMAIN pre_transactions) =>
    /\ result = Err(RootTransactionRequired)
    /\ transactions = pre_transactions
    /\ accounts = pre_accounts

\* A dispute of an unknown id has just been refused while its client has an
\* account.
C4_Witness ==
  /\ Rejected
  /\ cmd.kind = Dispute
  /\ cmd.tx \notin DOMAIN pre_transactions
  /\ cmd.client \in DOMAIN pre_accounts
  /\ result = Err(RootTransactionRequired)

\* C5: a command whose id has a ledger record owned by another client is
\* rejected with UnexpectedClient whatever its kind; the stored transaction
\* and the account of the owning client are unchanged.
C5_UnexpectedClient ==
  (Called /\ cmd.tx \in DOMAIN pre_transactions
     /\ pre_transactions[cmd.tx].client # cmd.client) =>
    LET owner == pre_transactions[cmd.tx].client
    IN /\ result = Err(UnexpectedClient(owner, cmd.client))
       /\ cmd.tx \in DOMAIN transactions
       /\ transactions[cmd.tx] = pre_transactions[cmd.tx]
       /\ AccountsRepo_get(accounts, owner)
            = AccountsRepo_get(pre_accounts, owner)

\* A dispute of another client's deposit has just been refused; the
\* disputing client has an account of its own.
C5_Witness ==
  /\ Rejected
  /\ cmd.kind = Dispute
  /\ cmd.tx \in DOMAIN pre_transactions
  /\ pre_transactions[cmd.tx].client # cmd.client
  /\ pre_transactions[cmd.tx].kind.tag = "Deposit"
  /\ cmd.client \in DOMAIN pre_accounts
  /\ result
       = Err(UnexpectedClient(pre_transactions[cmd.tx].client, cmd.client))

AccountLocked == [error |-> "AccountLocked"]

\* C7: a command that reaches a locked account (a Deposit with a new id in
\* particular) is rejected with AccountLocked, an error kind distinct from
\* InsufficientFunds.
C7_AccountLockedError ==
  (/\ Called
   /\ advance(pre_transactions, cmd).ok
   /\ cmd.client \in DOMAIN pre_accounts
   /\ pre_accounts[cmd.client].locked) =>
    /\ result = Err(AccountLocked)
    /\ result # Err(InsufficientFunds)

\* C8: locked is monotonic: an account that is locked is still there and
\* still locked after every call.
C8_LockedMonotonic ==
  Called =>
    \A k \in DOMAIN pre_accounts :
      pre_accounts[k].locked => k \in DOMAIN accounts /\ accounts[k].locked

\* A deposit with a new id has just been submitted for a locked client.
C8_Witness ==
  /\ Called
  /\ cmd.kind.tag = "Deposit"
  /\ cmd.tx \notin DOMAIN pre_transactions
  /\ cmd.client \in DOMAIN pre_accounts
  /\ pre_accounts[cmd.client].locked

\* C9: after every accepted Withdrawal the account's available is >= 0, and
\* a Withdrawal with a new id that meets an account with
\* available - amount < 0 is rejected with InsufficientFunds and leaves the
\* account as it was.
C9_WithdrawalFloor ==
  (Called /\ cmd.kind.tag = "Withdrawal") =>
    /\ result.ok =>
         /\ cmd.client \in DOMAIN accounts
         /\ accounts[cmd.client].available >= 0
    /\ (/\ cmd.tx \notin DOMAIN pre_transactions
        /\ cmd.client \in DOMAIN pre_accounts
        /\ pre_accounts[cmd.client].available - cmd.kind.amount < 0) =>
         /\ result = Err(InsufficientFunds)
         /\ accounts = pre_accounts

\* A withdrawal larger than the non-negative available balance of an
\* unlocked account has just been refused.
C9_Witness ==
  /\ Rejected
  /\ cmd.kind.tag = "Withdrawal"
  /\ result = Err(InsufficientFunds)
  /\ cmd.client \in DOMAIN pre_accounts
  /\ ~pre_accounts[cmd.client].locked
  /\ pre_accounts[cmd.client].available >= 0
  /\ cmd.kind.amount > pre_accounts[cmd.client].available

\* C10: a rejected command leaves the ledger and the account store exactly
\* as they were.
C10_RejectionLeavesState ==
  Rejected => transactions = pre_transactions /\ accounts = pre_accounts

\* A withdrawal with a new id has just been refused by the balance engine
\* while the ledger and the account store are not empty.
C10_Witness ==
  /\ Rejected
  /\ cmd.kind.tag = "Withdrawal"
  /\ cmd.tx \notin DOMAIN pre_transactions
  /\ result \in {Err(InsufficientFunds), Err(InvalidInitialTransaction)}
  /\ DOMAIN pre_transactions # {}
  /\ DOMAIN pre_accounts # {}

\* C11: rejection is idempotent: submitting a rejected command again right
\* away is rejected with the same error, and the ledger and the account store
\* after the second attempt are those before the first.
C11_RejectionIdempotent ==
  Rejected =>
    LET again == process(transactions, accounts, cmd, "none")
    IN /\ again.result = result
       /\ again.transactions = pre_transactions
       /\ again.accounts = pre_accounts

\* A withdrawal with a new id has just been refused for insufficient funds
\* on an unlocked account that has a ledger record.
C11_Witness ==
  /\ Rejected
  /\ cmd.kind.tag = "Withdrawal"
  /\ cmd.tx \notin DOMAIN pre_transactions
  /\ result = Err(InsufficientFunds)
  /\ cmd.client \in DOMAIN pre_accounts
  /\ ~pre_accounts[cmd.client].locked
  /\ \E id \in DOMAIN pre_transactions :
       pre_transactions[id].client = cmd.client
  /\ process(transactions, accounts, cmd, "none").result
       = Err(InsufficientFunds)

\* C12: an account appears only through an accepted Deposit of a client
\* that had none, with available = amount, held = 0 and not locked; a
\* Withdrawal of a client that has no account is always rejected, with
\* InvalidInitialTransaction when its id has no ledger record, and creates
\* neither an account nor a ledger record.
C12_AccountCreation ==
  Called =>
    /\ \A k \in DOMAIN accounts \ DOMAIN pre_accounts :
         /\ result.ok
         /\ cmd.kind.tag = "Deposit"
         /\ cmd.client = k
         /\ accounts[k] = [client |-> k, available |-> cmd.kind.amount,
                           held |-> 0, locked |-> FALSE]
    /\ (cmd.kind.tag = "Withdrawal" /\ cmd.client \notin DOMAIN pre_accounts) =>
         /\ ~result.ok
         /\ cmd.tx \notin DOMAIN pre_transactions =>
              result = Err(InvalidInitialTransaction)
         /\ accounts = pre_accounts
         /\ transactions = pre_transactions

\* A withdrawal with a new id has just been refused with
\* InvalidInitialTransaction for a client without account, while another
\* client has an account.
C12_Witness ==
  /\ Rejected
  /\ cmd.kind.tag = "Withdrawal"
  /\ cmd.tx \notin DOMAIN pre_transactions
  /\ cmd.client \notin DOMAIN accounts
  /\ DOMAIN accounts # {}
  /\ result = Err(InvalidInitialTransaction)

\* C13: an accepted Resolve moves the amount of the disputed transaction from
\* held back to available and leaves locked as it is, and a Resolve sent
\* right after an accepted Dispute is accepted and gives back exactly the
\* account the client had before the Dispute.
C13_DisputeResolveRoundTrip ==
  /\ (Accepted /\ cmd.kind = Resolve) =>
       LET amount == pre_transactions[cmd.tx].amount
           old == pre_accounts[cmd.client]
           new == accounts[cmd.client]
       IN /\ new.held = old.held - amount
          /\ new.available = old.available + amount
          /\ new.locked = old.locked
  /\ (Accepted /\ cmd.kind = Dispute) =>
       LET back == process(transactions, accounts,
                           [cmd EXCEPT !.kind = Resolve], "none")
       IN /\ back.result.ok
          /\ back.accounts = pre_accounts
          /\ back.transactions[cmd.tx].kind = Resolve

\* Deposit 1, Dispute, Resolve: the resolve has just been accepted and the
\* account is back at available 1, held 0.
C13_Witness ==
  /\ Accepted
  /\ cmd.kind = Resolve
  /\ pre_transactions[cmd.tx].amount = 1
  /\ pre_accounts[cmd.client].held = 1
  /\ pre_accounts[cmd.client].available = 0
  /\ accounts[cmd.client].available = 1
  /\ accounts[cmd.client].held = 0

\* C14: an accepted ChargeBack takes exactly the amount of the disputed
\* transaction out of held, leaves available unchanged and locks the
\* account.
C14_ChargeBack ==
  (Accepted /\ cmd.kind = ChargeBack) =>
    LET amount == pre_transactions[cmd.tx].amount
        old == pre_accounts[cmd.client]
        new == accounts[cmd.client]
    IN /\ new.held = old.held - amount
       /\ new.available = old.available
       /\ new.locked = TRUE

\* Deposit 1, Dispute, ChargeBack: the chargeback has just been accepted and
\* the account is at held 0, available 0, locked.
C14_Witness ==
  /\ Accepted
  /\ cmd.kind = ChargeBack
  /\ pre_transactions[cmd.tx].amount = 1
  /\ pre_accounts[cmd.client].held = 1
  /\ ~pre_accounts[cmd.client].locked
  /\ accounts[cmd.client].held = 0
  /\ accounts[cmd.client].available = 0
  /\ accounts[cmd.client].locked

\* The command of the call and a command t2 give the same ledger, the same
\* account store and the same accept/reject outcome each, whichever of the
\* two is processed first from the state the call began in.
Commute(t2) ==
  \A second \in {process(transactions, accounts, t2, "none")} :
    \A first \in {process(pre_transactions, pre_accounts, t2, "none")} :
      \A other \in {process(first.transactions, first.accounts, cmd, "none")} :
        /\ second.transactions = other.transactions
        /\ second.accounts = other.accounts
        /\ other.result.ok = result.ok
        /\ first.result.ok = second.result.ok

\* C15 as stated: any two consecutive commands of the input that carry
\* different client ids commute (the pairs are taken up to the last but one
\* row of the bounded input).
C15_ShardByClient ==
  (Called /\ rows < MaxCommands - 1) =>
    \A t2 \in TransactionCommand : t2.client # cmd.client => Commute(t2)

\* C15, amended: two consecutive commands of the input that carry different
\* client ids commute unless both name the same transaction id and that id
\* has no ledger record yet.
C15_ShardByClientAndTx ==
  (Called /\ rows < MaxCommands - 1) =>
    \A t2 \in TransactionCommand :
      (t2.client # cmd.client
         /\ ~(t2.tx = cmd.tx /\ cmd.tx \notin DOMAIN pre_transactions)) =>
        Commute(t2)

\* A deposit of one client has just been accepted while another client has
\* an account and a deposit of its own that it can dispute next.
C15_Witness ==
  /\ Accepted
  /\ rows < MaxCommands - 1
  /\ cmd.kind.tag = "Deposit"
  /\ \E t2 \in TransactionCommand :
       /\ t2.client # cmd.client
       /\ t2.kind = Dispute
       /\ t2.tx \in DOMAIN transactions
       /\ process(transactions, accounts, t2, "none").result.ok
       /\ Commute(t2)

\* C16: a command rejected by process_transaction never stops the batch: the
\* run is still in its loop after a rejected call, a run that returned early
\* did so on a row that was never submitted, every other row taken from the
\* reader has been submitted once, in the order read, and a run that reached
\* the end of the input wrote the report of every account.
C16_RejectionNeverStopsBatch ==
  /\ Called => pc = "loop" /\ rows = processed
  /\ pc = "aborted" => rows = processed + 1
  /\ (pc = "loop" /\ last = <<>>) => rows = processed
  /\ pc = "done" => rows = processed /\ output = report_rows(accounts)

\* The third command has just been accepted after the first two were
\* rejected (the ledger was still empty when it was submitted).
C16_Witness ==
  /\ Accepted
  /\ processed = 3
  /\ pre_transactions = <<>>
  /\ pc = "loop"

\* C17: a row that cannot be turned into a command never aborts the batch:
\* after such a row (a row read and not submitted) the run is still in its
\* loop, or has ended with the report written.
C17_BadRowNeverAborts ==
  rows > processed =>
    \/ pc = "loop"
    \/ pc = "done" /\ output = report_rows(accounts)

\* C18: a Dispute of an undisputed Deposit or Withdrawal of the same client
\* on an unlocked account is accepted whatever the balance, moves the amount
\* of the root transaction from available to held and leaves the record with
\* kind Dispute.
C18_DisputeNoFloor ==
  (/\ Called
   /\ cmd.kind = Dispute
   /\ cmd.tx \in DOMAIN pre_transactions
   /\ pre_transactions[cmd.tx].client = cmd.client
   /\ pre_transactions[cmd.tx].kind.tag \in Root
   /\ ~pre_accounts[cmd.client].locked) =>
    LET amount == pre_transactions[cmd.tx].kind.amount
        old == pre_accounts[cmd.client]
        new == accounts[cmd.client]
    IN /\ result.ok
       /\ new.available = old.available - amount
       /\ new.held = old.held + amount
       /\ new.locked = old.locked
       /\ transactions[cmd.tx].kind = Dispute
       /\ transactions[cmd.tx].amount = amount

\* Deposit 1, Withdrawal 1, Dispute of the deposit: the dispute has just been
\* accepted and available is -1, held 1.
C18_Witness ==
  /\ Accepted
  /\ cmd.kind = Dispute
  /\ pre_transactions[cmd.tx].kind = Deposit(1)
  /\ pre_accounts[cmd.client].available = 0
  /\ accounts[cmd.client].available = -1
  /\ accounts[cmd.client].held = 1

\* C19: on repositories that can fail, process_transaction returns Ok only
\* when both saves were made, and it saves the account before the ledger: a
\* failing account save leaves both repositories as they were, a failing
\* ledger save leaves the updated account saved and the ledger with the old
\* record, and both are reported as failures.
C19_SaveOrder ==
  Called =>
    /\ result.ok =>
         /\ last[1].fault = "none"
         /\ cmd.tx \in DOMAIN transactions
         /\ transactions[cmd.tx].kind = cmd.kind
         /\ cmd.client \in DOMAIN accounts
         /\ transactions # pre_transactions
    /\ transactions # pre_transactions => result.ok
    /\ last[1].fault = "accounts.save" =>
         /\ result = Err(StorageError)
         /\ accounts = pre_accounts
         /\ transactions = pre_transactions
    /\ last[1].fault = "transactions.save" =>
         /\ result = Err(StorageError)
         /\ transactions = pre_transactions
         /\ accounts =
              AccountsRepo_save(
                pre_accounts,
                update(pre_accounts, advance(pre_transactions, cmd).val).val)

\* The ledger save of a dispute has just failed: the call returned an error,
\* the held funds are on the saved account and the ledger record is still
\* the deposit.
C19_Witness ==
  /\ Rejected
  /\ last[1].fault = "transactions.save"
  /\ cmd.kind = Dispute
  /\ transactions[cmd.tx].kind.tag = "Deposit"
  /\ accounts[cmd.client].held = transactions[cmd.tx].amount
  /\ pre_accounts[cmd.client].held = 0
  /\ accounts # pre_accounts

\* C20: a command of client c leaves the account of every other client as it
\* was, leaves every ledger record owned by another client as it was, and
\* creates no ledger record for another client.
C20_Frame ==
  Called =>
    /\ \A k \in Clients \ {cmd.client} :
         /\ AccountsRepo_get(accounts, k) = AccountsRepo_get(pre_accounts, k)
         /\ \A id \in DOMAIN pre_transactions :
              pre_transactions[id].client = k =>
                id \in DOMAIN transactions
                  /\ transactions[id] = pre_transactions[id]
    /\ \A id \in DOMAIN transactions \ DOMAIN pre_transactions :
         transactions[id].client = cmd.client

\* A client has just sent a ChargeBack for a disputed transaction of another
\* client.
C20_Witness ==
  /\ Called
  /\ cmd.kind = ChargeBack
  /\ cmd.tx \in DOMAIN pre_transactions
  /\ pre_transactions[cmd.tx].client # cmd.client
  /\ pre_transactions[cmd.tx].kind = Dispute
  /\ ~accounts[pre_transactions[cmd.tx].client].locked

\* The ids of the ledger records in data owned by client c whose kind is k.
records_of(data, c, k) ==
  {id \in DOMAIN data : data[id].client = c /\ data[id].kind = k}

RECURSIVE sum_amounts(_, _)
sum_amounts(data, ids) ==
  IF ids = {} THEN 0
  ELSE LET id == CHOOSE i \in ids : TRUE
       IN data[id].amount + sum_amounts(data, ids \ {id})

\* C22: in every reachable state (repositories not failing) held of each
\* account is the sum of the amounts of the client's ledger records whose
\* kind is Dispute, and every client that owns a ledger record has an
\* account.
C22_HeldIsDisputedSum ==
  /\ \A c \in DOMAIN accounts :
       accounts[c].held =
         sum_amounts(transactions, records_of(transactions, c, Dispute))
  /\ \A id \in DOMAIN transactions :
       transactions[id].client \in DOMAIN accounts

\* A client with two disputed deposits of amount 1 and 2 held.
C22_Witness ==
  \E c \in DOMAIN accounts :
    /\ Cardinality(records_of(transactions, c, Dispute)) = 2
    /\ accounts[c].held = 2

\* C23: when no command carries a negative amount, held of no account is
\* ever negative, and a Resolve or ChargeBack is only accepted for a record
\* whose Dispute put at least that amount into held of the same account.
C23_HeldNeverNegative ==
  /\ \A c \in DOMAIN accounts : accounts[c].held >= 0
  /\ (Accepted /\ cmd.kind \in {Resolve, ChargeBack}) =>
       /\ pre_transactions[cmd.tx].kind = Dispute
       /\ pre_transactions[cmd.tx].client = cmd.client
       /\ pre_accounts[cmd.client].held >= pre_transactions[cmd.tx].amount
       /\ accounts[cmd.client].held =
            pre_accounts[cmd.client].held - pre_transactions[cmd.tx].amount

\* A ChargeBack has just taken the last disputed amount out of held.
C23_Witness ==
  /\ Accepted
  /\ cmd.kind = ChargeBack
  /\ pre_transactions[cmd.tx].amount > 0
  /\ pre_accounts[cmd.client].held = pre_transactions[cmd.tx].amount
  /\ accounts[cmd.client].held = 0

\* C24: a rejected root command does not reserve its transaction id. The
\* ledger gains a record exactly when a Deposit or Withdrawal naming an id
\* without a record is accepted, and that record is the only one gained;
\* after a rejected Deposit or Withdrawal naming an id without a record, a
\* Dispute of that id by any client is rejected with RootTransactionRequired
\* and a Deposit reusing the id is accepted for every client whose account
\* is not locked, as is a Withdrawal reusing it that the account can cover.
C24_RejectedRootReservesNothing ==
  Called =>
    /\ DOMAIN transactions # DOMAIN pre_transactions
         <=> (result.ok /\ cmd.kind.tag \in Root)
    /\ (result.ok /\ cmd.kind.tag \in Root) =>
         /\ cmd.tx \notin DOMAIN pre_transactions
         /\ DOMAIN transactions = DOMAIN pre_transactions \cup {cmd.tx}
    /\ (~result.ok /\ cmd.kind.tag \in Root
          /\ cmd.tx \notin DOMAIN pre_transactions) =>
         /\ cmd.tx \notin DOMAIN transactions
         /\ \A c \in Clients :
              /\ process(transactions, accounts,
                         [kind |-> Dispute, tx |-> cmd.tx, client |-> c],
                         "none").result = Err(RootTransactionRequired)
              /\ ~(c \in DOMAIN accounts /\ is_locked(accounts[c])) =>
                   \A a \in Amounts :
                     /\ process(transactions, accounts,
                                [kind |-> Deposit(a), tx |-> cmd.tx,
                                 client |-> c],
                                "none").result.ok
                     /\ (c \in DOMAIN accounts
                           /\ accounts[c].available - a >= 0) =>
                          process(transactions, accounts,
                                  [kind |-> Withdrawal(a), tx |-> cmd.tx,
                                   client |-> c],
                                  "none").result.ok

\* A Withdrawal with a new id has just been rejected for insufficient funds
\* on an existing, unlocked account.
C24_Witness ==
  /\ Rejected
  /\ cmd.kind.tag = "Withdrawal"
  /\ cmd.tx \notin DOMAIN pre_transactions
  /\ cmd.client \in DOMAIN accounts
  /\ ~is_locked(accounts[cmd.client])
  /\ result = Err(InsufficientFunds)
  /\ cmd.tx \notin DOMAIN transactions

\* C25: no call of process_transaction fails with UnexpectedTx or with
\* InvalidClient: the record handed to Transaction::apply was found under
\* the id of the command, and the account handed to Account::apply was found
\* under the client of the transaction.
C25_DefensiveChecksUnreachable ==
  /\ Called =>
       (~result.ok =>
          result.err.error \notin {"UnexpectedTx", "InvalidClient"})
  /\ \A id \in DOMAIN transactions : transactions[id].tx = id
  /\ \A c \in DOMAIN accounts : accounts[c].client = c

\* An advanced command has just passed both checks: a Resolve was accepted
\* for a client while another client also has a record and an account.
C25_Witness ==
  /\ Accepted
  /\ cmd.kind = Resolve
  /\ \E id \in DOMAIN transactions : transactions[id].client # cmd.client
  /\ \E c \in DOMAIN accounts : c # cmd.client

====
